---- MODULE Spec2Model ----
(***************************************************************************)
(* sectorETF (src/main.py): a scraper that fetches one fund page per       *)
(* ticker, extracts NAV / AUM / shares outstanding and an as-of date from  *)
(* the page text, and upserts one row per ticker into a table.             *)
(*                                                                         *)
(* Representation of text.  Every regular expression of main.py is run on  *)
(* t = re.sub(r"\s+", " ", text), so the page text is modelled after that  *)
(* collapse: a sequence of lexemes separated by single spaces.  A lexeme   *)
(* is one of                                                               *)
(*   [k |-> "phrase", s]                     a literal label phrase        *)
(*   [k |-> "amt", dollar, num, unit]        "$"? num (" " unit)?          *)
(*   [k |-> "date", mon, day, comma, year]   "Jan 15, 2026"                *)
(*   [k |-> "ndate", mm, dd, yyyy]           "01/15/2026"                  *)
(*   [k |-> "word", len]                     other text of len characters  *)
(* num is a sequence of one-character strings matching [\d,]+(?:\.\d+)?.   *)
(*                                                                         *)
(* Python values.  None is the record None; a float is a decimal           *)
(* [tag |-> "float", m, e] standing for m * 10^e with m not a multiple of  *)
(* ten (0 is m = 0, e = 0); a datetime.date is [tag |-> "date", y, m, d].  *)
(***************************************************************************)
EXTENDS Integers, Sequences, FiniteSets, TLC

None == [tag |-> "None"]

\* Python truthiness of None / float, as used by `a or b` (main.py:181).
Truthy(v) ==
    CASE v.tag = "None" -> FALSE
      [] v.tag = "float" -> v.m # 0
      [] OTHER -> TRUE

PyOr(a, b) == IF Truthy(a) THEN a ELSE b

(***************************************************************************)
(* float(num.replace(",", "")) and the unit multiplier                     *)
(***************************************************************************)
RECURSIVE Normalize(_, _)
Normalize(m, e) ==
    IF m = 0 THEN [tag |-> "float", m |-> 0, e |-> 0]
    ELSE IF m % 10 = 0 THEN Normalize(m \div 10, e + 1)
    ELSE [tag |-> "float", m |-> m, e |-> e]

DigitVal(c) ==
    CASE c = "0" -> 0 [] c = "1" -> 1 [] c = "2" -> 2 [] c = "3" -> 3
      [] c = "4" -> 4 [] c = "5" -> 5 [] c = "6" -> 6 [] c = "7" -> 7
      [] c = "8" -> 8 [] c = "9" -> 9

RECURSIVE DigitsToInt(_, _)
DigitsToInt(cs, acc) ==
    IF cs = <<>> THEN acc
    ELSE DigitsToInt(Tail(cs), acc * 10 + DigitVal(Head(cs)))

IsNotComma(c) == c # ","
IsNotDot(c) == c # "."

RECURSIVE IndexOfDot(_, _)
IndexOfDot(cs, i) ==
    IF i > Len(cs) THEN 0
    ELSE IF cs[i] = "." THEN i
    ELSE IndexOfDot(cs, i + 1)

\* float(s) for s made of digits and at most one ".": None stands for the
\* ValueError float() raises on "" (and on a lone ".").
PyFloat(s) ==
    LET digits == SelectSeq(s, IsNotDot)
        dot == IndexOfDot(s, 1)
        nfrac == IF dot = 0 THEN 0 ELSE Len(s) - dot
    IN  IF digits = <<>> THEN None
        ELSE Normalize(DigitsToInt(digits, 0), 0 - nfrac)

FloatMul(x, y) == Normalize(x.m * y.m, x.e + y.e)

Upper(u) ==
    CASE u = "k" -> "K" [] u = "m" -> "M" [] u = "b" -> "B" [] OTHER -> u

\* main.py:47-49: {"K": 1e3, "M": 1e6, "B": 1e9}.get(u, 1.0)
unit_to_mult(unit) ==
    LET u == Upper(unit)
    IN  CASE u = "K" -> [tag |-> "float", m |-> 1, e |-> 3]
          [] u = "M" -> [tag |-> "float", m |-> 1, e |-> 6]
          [] u = "B" -> [tag |-> "float", m |-> 1, e |-> 9]
          [] OTHER -> [tag |-> "float", m |-> 1, e |-> 0]

\* main.py:52-57
parse_unit_amount(num, unit) ==
    LET x == PyFloat(SelectSeq(num, IsNotComma))
    IN  IF x = None THEN None ELSE FloatMul(x, unit_to_mult(unit))

(***************************************************************************)
(* Lexemes and the literal parts of the regular expressions                *)
(***************************************************************************)
Phrase(s) == [k |-> "phrase", s |-> s]
Amt(dollar, num, unit) == [k |-> "amt", dollar |-> dollar, num |-> num, unit |-> unit]
TDate(mon, day, comma, year) ==
    [k |-> "date", mon |-> mon, day |-> day, comma |-> comma, year |-> year]
NDate(mm, dd, yyyy) == [k |-> "ndate", mm |-> mm, dd |-> dd, yyyy |-> yyyy]
Word(len) == [k |-> "word", len |-> len]

FNAV_PHRASE == "Fund Net Asset Value as of"

\* Whether phrase s ends with the literal `label` (re.IGNORECASE), so that
\* `label\s+<value>` can match with the value in the next lexeme.
EndsWithLabel(s, label) ==
    \/ s = label
    \/ s = FNAV_PHRASE /\ label = "As of"

\* [BbMmKk] of AMT_RE (main.py:44); the unit is not optional in the pattern.
IsUnitLetter(u) == u \in {"B", "b", "M", "m", "K", "k"}

\* Characters of phrase s that follow the literal `label` inside it, or -1
\* when s does not contain `label` (\bNAV\b and "Net Asset Value" of
\* extract_nav, main.py:125 and 128).
TailAfter(s, label) ==
    CASE s = label -> 0
      [] s = FNAV_PHRASE /\ label = "Net Asset Value" -> 6
      [] OTHER -> 0 - 1

PhraseLen(s) ==
    CASE s = FNAV_PHRASE -> 26
      [] s = "As of" -> 5
      [] s = "NAV" -> 3
      [] s = "Assets Under Management" -> 23
      [] s = "Net Assets" -> 10
      [] s = "Shares Outstanding" -> 18

\* strptime's %b and %B tables (English locale); 0 is "no such month".
AbbrMonth(w) ==
    CASE w = "Jan" -> 1 [] w = "Feb" -> 2 [] w = "Mar" -> 3 [] w = "Apr" -> 4
      [] w = "May" -> 5 [] w = "Jun" -> 6 [] w = "Jul" -> 7 [] w = "Aug" -> 8
      [] w = "Sep" -> 9 [] w = "Oct" -> 10 [] w = "Nov" -> 11 [] w = "Dec" -> 12
      [] OTHER -> 0

FullMonth(w) ==
    CASE w = "January" -> 1 [] w = "February" -> 2 [] w = "March" -> 3
      [] w = "April" -> 4 [] w = "May" -> 5 [] w = "June" -> 6
      [] w = "July" -> 7 [] w = "August" -> 8 [] w = "September" -> 9
      [] w = "October" -> 10 [] w = "November" -> 11 [] w = "December" -> 12
      [] OTHER -> 0

\* Number of letters of a month word, for [A-Za-z]{3} and [A-Za-z]{3,9}.
WordLen(w) ==
    CASE AbbrMonth(w) # 0 -> 3
      [] w \in {"June", "July", "Sept"} -> 4
      [] w \in {"March", "April"} -> 5
      [] w = "August" -> 6
      [] w \in {"January", "October"} -> 7
      [] w \in {"February", "November", "December"} -> 8
      [] w = "September" -> 9
      [] OTHER -> 3

\* Rendered length of a lexeme, for the .{0,200}? window of extract_nav.
TokLen(tok) ==
    CASE tok.k = "phrase" -> PhraseLen(tok.s)
      [] tok.k = "amt" ->
            (IF tok.dollar THEN 1 ELSE 0) + Len(tok.num)
                + (IF tok.unit = "" THEN 0 ELSE 2)
      [] tok.k = "date" ->
            WordLen(tok.mon) + 1 + (IF tok.day >= 10 THEN 2 ELSE 1)
                + (IF tok.comma THEN 1 ELSE 0) + 5
      [] tok.k = "ndate" -> 10
      [] tok.k = "word" -> tok.len

(***************************************************************************)
(* datetime.strptime(...).date()                                           *)
(***************************************************************************)
IsLeap(y) == (y % 4 = 0 /\ y % 100 # 0) \/ y % 400 = 0

DaysInMonth(y, m) ==
    CASE m \in {4, 6, 9, 11} -> 30
      [] m = 2 -> IF IsLeap(y) THEN 29 ELSE 28
      [] OTHER -> 31

PyDate(y, m, d) == [tag |-> "date", y |-> y, m |-> m, d |-> d]

\* The date strptime builds from a month number, day and year it has
\* matched, or None for the ValueError it raises (month 0 stands for an
\* unknown month name; %d takes 1..31, %m 1..12, %Y a year from 1).
MakeDate(y, m, d) ==
    IF /\ m \in 1..12
       /\ y >= 1
       /\ d >= 1
       /\ d <= DaysInMonth(y, m)
    THEN PyDate(y, m, d)
    ELSE None

\* strptime(raw, "%b %d %Y") / "%B %d %Y" / "%m/%d/%Y"
StrptimeAbbr(tok) == MakeDate(tok.year, AbbrMonth(tok.mon), tok.day)
StrptimeFull(tok) == MakeDate(tok.year, FullMonth(tok.mon), tok.day)
StrptimeNumeric(tok) == MakeDate(tok.yyyy, tok.mm, tok.dd)

(***************************************************************************)
(* re.search: the leftmost position at which the pattern matches           *)
(***************************************************************************)
\* Fund Net Asset Value as of\s+([A-Za-z]{3}\s+\d{1,2}\s+\d{4})
MatchesFundNav(t, i) ==
    /\ i < Len(t)
    /\ t[i].k = "phrase" /\ t[i].s = FNAV_PHRASE
    /\ t[i + 1].k = "date"
    /\ WordLen(t[i + 1].mon) = 3
    /\ ~t[i + 1].comma

\* As of\s+([A-Za-z]{3,9}\s+\d{1,2},?\s+\d{4})
MatchesAsOfText(t, i) ==
    /\ i < Len(t)
    /\ t[i].k = "phrase" /\ EndsWithLabel(t[i].s, "As of")
    /\ t[i + 1].k = "date"
    /\ WordLen(t[i + 1].mon) >= 3 /\ WordLen(t[i + 1].mon) <= 9

\* As of\s+(\d{1,2}/\d{1,2}/\d{4})
MatchesAsOfNumeric(t, i) ==
    /\ i < Len(t)
    /\ t[i].k = "phrase" /\ EndsWithLabel(t[i].s, "As of")
    /\ t[i + 1].k = "ndate"

\* {re.escape(label)}\s+\$?\s*([\d,]+(?:\.\d+)?)\s*([BbMmKk])\b
MatchesLabeledAmount(t, label, i) ==
    /\ i < Len(t)
    /\ t[i].k = "phrase" /\ EndsWithLabel(t[i].s, label)
    /\ t[i + 1].k = "amt"
    /\ IsUnitLetter(t[i + 1].unit)

RECURSIVE SearchFundNav(_, _)
SearchFundNav(t, i) ==
    IF i > Len(t) THEN 0
    ELSE IF MatchesFundNav(t, i) THEN i
    ELSE SearchFundNav(t, i + 1)

RECURSIVE SearchAsOfText(_, _)
SearchAsOfText(t, i) ==
    IF i > Len(t) THEN 0
    ELSE IF MatchesAsOfText(t, i) THEN i
    ELSE SearchAsOfText(t, i + 1)

RECURSIVE SearchAsOfNumeric(_, _)
SearchAsOfNumeric(t, i) ==
    IF i > Len(t) THEN 0
    ELSE IF MatchesAsOfNumeric(t, i) THEN i
    ELSE SearchAsOfNumeric(t, i + 1)

RECURSIVE SearchLabeledAmount(_, _, _)
SearchLabeledAmount(t, label, i) ==
    IF i > Len(t) THEN 0
    ELSE IF MatchesLabeledAmount(t, label, i) THEN i
    ELSE SearchLabeledAmount(t, label, i + 1)

(***************************************************************************)
(* extract_asof_date (main.py:60-101)                                      *)
(***************************************************************************)
\* main.py:68-77: None stands for "no match, or strptime raised".
AsOfFromFundNav(t) ==
    LET i == SearchFundNav(t, 1)
    IN  IF i = 0 THEN None ELSE StrptimeAbbr(t[i + 1])

\* main.py:80-91: the comma is removed, then "%b %d %Y", then "%B %d %Y".
AsOfFromText(t) ==
    LET i == SearchAsOfText(t, 1)
    IN  IF i = 0 THEN None
        ELSE IF StrptimeAbbr(t[i + 1]) # None THEN StrptimeAbbr(t[i + 1])
        ELSE StrptimeFull(t[i + 1])

\* main.py:94-99
AsOfFromNumeric(t) ==
    LET i == SearchAsOfNumeric(t, 1)
    IN  IF i = 0 THEN None ELSE StrptimeNumeric(t[i + 1])

\* A resolver that gives up when the match of the first pattern does not
\* parse, instead of trying the next pattern.
extract_asof_date_no_fallthrough(t) ==
    IF SearchFundNav(t, 1) # 0 THEN AsOfFromFundNav(t)
    ELSE IF AsOfFromText(t) # None THEN AsOfFromText(t)
    ELSE AsOfFromNumeric(t)

extract_asof_date(t) ==
    IF AsOfFromFundNav(t) # None THEN AsOfFromFundNav(t)
    ELSE IF AsOfFromText(t) # None THEN AsOfFromText(t)
    ELSE AsOfFromNumeric(t)

(***************************************************************************)
(* extract_labeled_amount (main.py:104-117)                                *)
(***************************************************************************)
extract_labeled_amount(t, label) ==
    LET i == SearchLabeledAmount(t, label, 1)
    IN  IF i = 0 THEN None
        ELSE parse_unit_amount(t[i + 1].num, t[i + 1].unit)

(***************************************************************************)
(* extract_nav (main.py:120-134)                                           *)
(***************************************************************************)
NAV_WINDOW == 200

\* .{0,200}?\$\s*([\d,]+(?:\.\d+)?): the nearest "$" amount at or after
\* lexeme j, `gap` characters after the label; 0 when none lies within the
\* window.
RECURSIVE NearestDollar(_, _, _)
NearestDollar(t, j, gap) ==
    IF j > Len(t) \/ gap > NAV_WINDOW THEN 0
    ELSE IF t[j].k = "amt" /\ t[j].dollar THEN j
    ELSE NearestDollar(t, j + 1, gap + TokLen(t[j]) + 1)

MatchesNav(t, label, i) ==
    /\ t[i].k = "phrase"
    /\ TailAfter(t[i].s, label) >= 0
    /\ NearestDollar(t, i + 1, TailAfter(t[i].s, label) + 1) # 0

RECURSIVE SearchNav(_, _, _)
SearchNav(t, label, i) ==
    IF i > Len(t) THEN 0
    ELSE IF MatchesNav(t, label, i) THEN i
    ELSE SearchNav(t, label, i + 1)

\* group(1) of the match that starts at lexeme i
NavGroup(t, label, i) ==
    t[NearestDollar(t, i + 1, TailAfter(t[i].s, label) + 1)].num

extract_nav(t) ==
    LET i == SearchNav(t, "NAV", 1)
        f == SearchNav(t, "Net Asset Value", 1)
    IN  IF i # 0 THEN PyFloat(SelectSeq(NavGroup(t, "NAV", i), IsNotComma))
        ELSE IF f # 0
             THEN PyFloat(SelectSeq(NavGroup(t, "Net Asset Value", f), IsNotComma))
        ELSE None

(***************************************************************************)
(* The fetched document.  html = [body, script]: body is the text that     *)
(* soup.get_text(" ", strip=True) yields, script is the                    *)
(* <script id="__NEXT_DATA__"> element: [tag |-> "absent"] or              *)
(* [tag |-> "script", string], string being [k |-> "empty"] (no content),  *)
(* [k |-> "invalid"] (content json.loads rejects) or [k |-> "json", value] *)
(* with value what json.loads returns: None for null,                      *)
(* [tag |-> "object" / "array", size, strings], strings being the text     *)
(* carried by the payload's string values.                                 *)
(***************************************************************************)
NoScript == [tag |-> "absent"]
Script(string) == [tag |-> "script", string |-> string]
Json(value) == [k |-> "json", value |-> value]
JsonObject(size, strings) == [tag |-> "object", size |-> size, strings |-> strings]
JsonArray(size, strings) == [tag |-> "array", size |-> size, strings |-> strings]

\* bool(x) of a json.loads result: None and empty containers are falsy.
PyBool(v) ==
    CASE v.tag = "None" -> FALSE
      [] v.tag \in {"object", "array"} -> v.size > 0
      [] OTHER -> Truthy(v)

\* BeautifulSoup(html, "html.parser").get_text(" ", strip=True): the
\* document's text; the strings of <script> elements are not part of it.
\* A text reduction that also yields the strings of the parsed payload.
get_text_with_payload(html) ==
    IF html.script.tag = "script" /\ html.script.string.k = "json"
       /\ html.script.string.value # None
    THEN html.body \o html.script.string.value.strings
    ELSE html.body

get_text(html) == html.body

\* main.py:137-144
dig_next_data(html) ==
    IF html.script.tag = "script" /\ html.script.string.k # "empty"
    THEN IF html.script.string.k = "json"
         THEN html.script.string.value
         ELSE None
    ELSE None

(***************************************************************************)
(* fetch_snapshot after fetch_html has returned html (main.py:171-201)     *)
(***************************************************************************)
raw_payload_of(nav, aum, shares, nd, url) ==
    [nav |-> nav, aum |-> aum, shares |-> shares,
     next_data_present |-> PyBool(nd), url |-> url]

\* An AUM lookup that stops at the first label, without the `or` of
\* main.py:181.
extract_aum_first_label_only(text) ==
    extract_labeled_amount(text, "Assets Under Management")

extract_aum(text) ==
    PyOr(extract_labeled_amount(text, "Assets Under Management"),
         extract_labeled_amount(text, "Net Assets"))

extract_shares(text) == extract_labeled_amount(text, "Shares Outstanding")

\* extract_asof_date(text) or dt.datetime.utcnow().date()
asof_or_today(text, utcnow) ==
    IF extract_asof_date(text) # None THEN extract_asof_date(text) ELSE utcnow

\* An assembly in which a missing NAV empties the other fields too.
build_snapshot_abort_on_miss(html, url, utcnow) ==
    LET text == get_text(html)
        nav == extract_nav(text)
        shares == IF nav = None THEN None ELSE extract_shares(text)
        aum == IF nav = None THEN None ELSE extract_aum(text)
        nd == dig_next_data(html)
    IN  [asof_date |-> asof_or_today(text, utcnow),
         nav |-> nav,
         aum |-> aum,
         shares_outstanding |-> shares,
         source_url |-> url,
         raw_payload |-> raw_payload_of(nav, aum, shares, nd, url)]

build_snapshot(html, url, utcnow) ==
    LET text == get_text(html)
        nav == extract_nav(text)
        shares == extract_shares(text)
        aum == extract_aum(text)
        nd == dig_next_data(html)
    IN  [asof_date |-> asof_or_today(text, utcnow),
         nav |-> nav,
         aum |-> aum,
         shares_outstanding |-> shares,
         source_url |-> url,
         raw_payload |-> raw_payload_of(nav, aum, shares, nd, url)]

(***************************************************************************)
(* Configuration (main.py:16-33)                                           *)
(***************************************************************************)
TICKERS ==
    <<"XLC", "XLY", "XLP", "XLE", "XLF", "XLV", "XLI", "XLB", "XLK", "XLU",
      "XLRE", "GLD", "SPAB", "SPY">>

SOURCE_URLS ==
    [t \in {TICKERS[i] : i \in 1..Len(TICKERS)} |->
        CASE t = "XLC" -> "https://www.ssga.com/us/en/individual/etfs/state-street-communication-services-select-sector-spdr-etf-xlc"
          [] t = "XLY" -> "https://www.ssga.com/us/en/individual/etfs/state-street-consumer-discretionary-select-sector-spdr-etf-xly"
          [] t = "XLP" -> "https://www.ssga.com/us/en/individual/etfs/state-street-consumer-staples-select-sector-spdr-etf-xlp"
          [] t = "XLE" -> "https://www.ssga.com/us/en/individual/etfs/state-street-energy-select-sector-spdr-etf-xle"
          [] t = "XLF" -> "https://www.ssga.com/us/en/individual/etfs/funds/financial-select-sector-spdr-fund-xlf"
          [] t = "XLV" -> "https://www.ssga.com/us/en/individual/etfs/state-street-healthcare-select-sector-spdr-etf-xlv"
          [] t = "XLI" -> "https://www.ssga.com/us/en/individual/etfs/state-street-industrial-select-sector-spdr-etf-xli"
          [] t = "XLB" -> "https://www.ssga.com/us/en/individual/etfs/state-street-materials-select-sector-spdr-etf-xlb"
          [] t = "XLK" -> "https://www.ssga.com/us/en/individual/etfs/state-street-technology-select-sector-spdr-etf-xlk"
          [] t = "XLU" -> "https://www.ssga.com/us/en/individual/etfs/state-street-utilities-select-sector-spdr-etf-xlu"
          [] t = "XLRE" -> "https://www.ssga.com/us/en/individual/etfs/state-street-real-estate-select-sector-spdr-etf-xlre"
          [] t = "GLD" -> "https://www.ssga.com/us/en/individual/etfs/spdr-gold-shares-gld"
          [] t = "SPAB" -> "https://www.ssga.com/us/en/individual/etfs/state-street-spdr-portfolio-aggregate-bond-etf-spab"
          [] t = "SPY" -> "https://www.ssga.com/us/en/individual/etfs/state-street-spdr-sp-500-etf-trust-spy"]

\* url = SOURCE_URLS.get(t); `if not url` (main.py:231-232)
HasUrl(t) == t \in DOMAIN SOURCE_URLS /\ SOURCE_URLS[t] # ""

\* retries: int = 2 (main.py:157)
RETRIES == 2

\* A loop that makes one attempt too few: range(retries).
MaxAttemptsOffByOne(retries) == retries

\* for _ in range(retries + 1) (main.py:159)
MaxAttempts(retries) == retries + 1

\* except Exception as e: last_err = e (main.py:164-165)
NextLastErr(last_err, e) == e

(***************************************************************************)
(* Bounds of the model                                                     *)
(***************************************************************************)
\* The driver's loop runs over the first NumTickers entries of TICKERS.
NumTickers == 2
\* Number of times the program is run against the same table.
MaxRuns == 2

Tickers == SubSeq(TICKERS, 1, NumTickers)

\* Lexeme sequences read per input family of the extraction functions.
MaxDateLexemes == 4
MaxAmountLexemes == 3
MaxScriptBodyLexemes == 2

(***************************************************************************)
(* Inputs: lexemes, page texts, script blocks, HTTP and store outcomes     *)
(***************************************************************************)
L_FNAV == Phrase(FNAV_PHRASE)
L_ASOF == Phrase("As of")
L_NAV == Phrase("NAV")
L_AUM == Phrase("Assets Under Management")
L_NETA == Phrase("Net Assets")
L_SHARES == Phrase("Shares Outstanding")

\* "$145.42", "$93,602.55 M", "643.66 m", "7 K", "$0 B", "$,"
A_NAV == Amt(TRUE, <<"1", "4", "5", ".", "4", "2">>, "")
A_AUM == Amt(TRUE, <<"9", "3", ",", "6", "0", "2", ".", "5", "5">>, "M")
A_SHARES == Amt(FALSE, <<"6", "4", "3", ".", "6", "6">>, "m")
A_PLAIN == Amt(FALSE, <<"1", ",", "2", "5", "0">>, "")
A_KILO == Amt(FALSE, <<"7">>, "K")
A_ZERO == Amt(TRUE, <<"0">>, "B")
A_COMMAS == Amt(TRUE, <<",">>, "M")

\* "Jan 15 2026", "January 16, 2026", "Feb 30 2026", "Sept 18, 2026",
\* "01/17/2026", "13/17/2026"
D_ABBR == TDate("Jan", 15, FALSE, 2026)
D_FULL == TDate("January", 16, TRUE, 2026)
D_BADDAY == TDate("Feb", 30, FALSE, 2026)
D_SEPT == TDate("Sept", 18, TRUE, 2026)
N_OK == NDate(1, 17, 2026)
N_BADMONTH == NDate(13, 17, 2026)

DateLexemes ==
    {L_FNAV, L_ASOF, D_ABBR, D_FULL, D_BADDAY, D_SEPT, N_OK, N_BADMONTH}

AmountLexemes ==
    {L_NAV, L_FNAV, L_AUM, L_NETA, L_SHARES,
     A_NAV, A_AUM, A_SHARES, A_PLAIN, A_ZERO, A_COMMAS, Word(250)}

ScriptBodyLexemes == {L_SHARES, L_AUM, A_SHARES}

SeqsUpTo(V, n) == UNION {[1..k -> V] : k \in 0..n}

\* What the payload's strings hold in the script-block inputs.
BlobText == <<L_SHARES, A_KILO, L_AUM, A_AUM>>

Scripts ==
    {NoScript,
     Script([k |-> "empty"]),
     Script([k |-> "invalid"]),
     Script(Json(None)),
     Script(Json(JsonObject(0, <<>>))),
     Script(Json(JsonArray(0, <<>>))),
     Script(Json(JsonObject(1, BlobText)))}

ExtractInputs ==
    {[body |-> b, script |-> NoScript] :
        b \in SeqsUpTo(DateLexemes, MaxDateLexemes)
                \cup SeqsUpTo(AmountLexemes, MaxAmountLexemes)}
    \cup {[body |-> b, script |-> sc] :
            b \in SeqsUpTo(ScriptBodyLexemes, MaxScriptBodyLexemes),
            sc \in Scripts}

\* Pages the HTTP server may serve to the driver.
PageFull ==
    [body |-> <<L_NAV, A_NAV, L_AUM, A_AUM, L_SHARES, A_SHARES, L_ASOF,
                TDate("Jan", 15, TRUE, 2026)>>,
     script |-> Script(Json(JsonObject(1, BlobText)))]
PageNavOnly ==
    [body |-> <<L_FNAV, D_BADDAY, A_NAV>>, script |-> NoScript]

ServedPages == {PageFull, PageNavOnly}

PyError(msg) == [tag |-> "error", msg |-> msg]
FetchErrors == {PyError("ConnectionError"), PyError("HTTPError 503")}
UpsertErrors == {PyError("APIError")}

\* The UTC calendar dates the runs may fall on, in order (here all runs fall on one day).
UtcDays == <<PyDate(2026, 1, 15)>>

(***************************************************************************)
(* upsert_daily (main.py:210-220) and the table                            *)
(***************************************************************************)
DigitChar(n) ==
    CASE n = 0 -> "0" [] n = 1 -> "1" [] n = 2 -> "2" [] n = 3 -> "3"
      [] n = 4 -> "4" [] n = 5 -> "5" [] n = 6 -> "6" [] n = 7 -> "7"
      [] n = 8 -> "8" [] n = 9 -> "9"

\* date.isoformat(): "YYYY-MM-DD" as a sequence of characters
isoformat(d) ==
    <<DigitChar(d.y \div 1000), DigitChar((d.y \div 100) % 10),
      DigitChar((d.y \div 10) % 10), DigitChar(d.y % 10), "-",
      DigitChar(d.m \div 10), DigitChar(d.m % 10), "-",
      DigitChar(d.d \div 10), DigitChar(d.d % 10)>>

\* A payload whose date is written day before month.
upsert_payload_day_month_swapped(ticker, s) ==
    [asof_date |-> isoformat(PyDate(s.asof_date.y, s.asof_date.d, s.asof_date.m)),
     ticker |-> ticker,
     nav |-> s.nav,
     aum |-> s.aum,
     shares_outstanding |-> s.shares_outstanding,
     source_url |-> s.source_url,
     raw_payload |-> s.raw_payload]

\* The payload dict of upsert_daily (main.py:211-219)
upsert_payload(ticker, s) ==
    [asof_date |-> isoformat(s.asof_date),
     ticker |-> ticker,
     nav |-> s.nav,
     aum |-> s.aum,
     shares_outstanding |-> s.shares_outstanding,
     source_url |-> s.source_url,
     raw_payload |-> s.raw_payload]

\* The key on which sector_etf_daily resolves an upsert's conflict.
ConflictKey(row) == <<row.ticker, row.asof_date>>

\* sb.table("sector_etf_daily").upsert(payload).execute() when it succeeds:
\* the row with the payload's key is replaced, or the payload is inserted.
TableUpsert(tbl, payload) ==
    {r \in tbl : ConflictKey(r) # ConflictKey(payload)} \cup {payload}

(***************************************************************************)
(* State                                                                   *)
(***************************************************************************)
VARIABLES
    pc,          \* where main() stands: idle, loop, fetch, parse, upsert, done, crashed
    run,         \* number of runs of the program started so far
    idx,         \* position of the for loop in TICKERS (1-based)
    attempts,    \* HTTP attempts fetch_html has made for the current ticker
    last_err,    \* fetch_html's last_err
    html,        \* what fetch_html returned
    snap,        \* the EtfSnapshot fetch_snapshot returned
    output,      \* the lines printed by the current run
    missing,     \* main()'s list of tickers without a URL
    utcnow,      \* the UTC date read last (index into UtcDays)
    table,       \* the rows of sector_etf_daily
    attemptLog,  \* history: outcomes of the current fetch_html call's attempts
    calls,       \* history: tickers fetch_snapshot was called for in this run
    lastUpsert   \* history: per ticker and date, the snapshot last upserted successfully,
                 \* and whether it replaced a different one

vars ==
    <<pc, run, idx, attempts, last_err, html, snap, output, missing, utcnow,
      table, attemptLog, calls, lastUpsert>>

OkLine(t, s) ==
    [kind |-> "OK", ticker |-> t, asof |-> s.asof_date, nav |-> s.nav,
     aum |-> s.aum, shares |-> s.shares_outstanding]
ErrLine(t, e) == [kind |-> "ERR", ticker |-> t, err |-> e]
WarnLine(m) == [kind |-> "WARN", tickers |-> m]

Init ==
    /\ pc = "idle"
    /\ run = 0
    /\ idx = 1
    /\ attempts = 0
    /\ last_err = None
    /\ html = None
    /\ snap = None
    /\ output = <<>>
    /\ missing = <<>>
    /\ utcnow = 1
    /\ table = {}
    /\ attemptLog = <<>>
    /\ calls = <<>>
    /\ lastUpsert = {}

(***************************************************************************)
(* main (main.py:223-247)                                                  *)
(***************************************************************************)
\* A run of the program starts; supabase_client() (main.py:204-207) raises
\* KeyError when SUPABASE_URL or SUPABASE_KEY is not set, before the loop.
Start ==
    /\ pc \in {"idle", "done", "crashed"}
    /\ run < MaxRuns
    /\ run' = run + 1
    /\ \E env_ok \in BOOLEAN : pc' = IF env_ok THEN "loop" ELSE "crashed"
    /\ idx' = 1
    /\ attempts' = 0
    /\ last_err' = None
    /\ html' = None
    /\ snap' = None
    /\ output' = <<>>
    /\ missing' = <<>>
    /\ attemptLog' = <<>>
    /\ calls' = <<>>
    /\ UNCHANGED <<utcnow, table, lastUpsert>>

\* The head of `for t in TICKERS` with the URL lookup, and the code after
\* the loop once the list is exhausted.
NextTicker ==
    /\ pc = "loop"
    /\ IF idx > Len(Tickers)
       THEN /\ pc' = "done"
            /\ output' = IF missing # <<>>
                         THEN Append(output, WarnLine(missing))
                         ELSE output
            /\ UNCHANGED <<idx, missing, attempts, last_err, attemptLog, calls>>
       ELSE IF ~HasUrl(Tickers[idx])
       THEN /\ missing' = Append(missing, Tickers[idx])
            /\ idx' = idx + 1
            /\ UNCHANGED <<pc, output, attempts, last_err, attemptLog, calls>>
       ELSE /\ pc' = "fetch"
            /\ attempts' = 0
            /\ last_err' = None
            /\ attemptLog' = <<>>
            /\ calls' = Append(calls, Tickers[idx])
            /\ UNCHANGED <<idx, missing, output>>
    /\ UNCHANGED <<run, html, snap, utcnow, table, lastUpsert>>

\* One iteration of fetch_html's loop (main.py:159-166): the request
\* succeeds and its body is returned, or it raises; after the last
\* iteration last_err is raised and caught by main's except clause.
Attempt ==
    /\ pc = "fetch"
    /\ attempts < MaxAttempts(RETRIES)
    /\ attempts' = attempts + 1
    /\ \/ \E body \in ServedPages :
            /\ html' = body
            /\ attemptLog' = Append(attemptLog, [ok |-> TRUE, body |-> body])
            /\ pc' = "parse"
            /\ UNCHANGED <<last_err, output, idx>>
       \/ \E e \in FetchErrors :
            /\ last_err' = NextLastErr(last_err, e)
            /\ attemptLog' = Append(attemptLog, [ok |-> FALSE, err |-> e])
            /\ IF attempts' >= MaxAttempts(RETRIES)
               THEN /\ output' = Append(output, ErrLine(Tickers[idx], last_err'))
                    /\ pc' = "loop"
                    /\ idx' = idx + 1
               ELSE UNCHANGED <<output, pc, idx>>
            /\ UNCHANGED html
    /\ UNCHANGED <<run, snap, missing, utcnow, table, calls, lastUpsert>>

\* The rest of fetch_snapshot (main.py:171-201); the clock never runs back.
Parse ==
    /\ pc = "parse"
    /\ \E d \in utcnow..Len(UtcDays) :
        /\ utcnow' = d
        /\ snap' = build_snapshot(html, SOURCE_URLS[Tickers[idx]], UtcDays[d])
    /\ pc' = "upsert"
    /\ UNCHANGED <<run, idx, attempts, last_err, html, output, missing, table,
                   attemptLog, calls, lastUpsert>>

SameKey(u, t, s) == u.ticker = t /\ u.snap.asof_date = s.asof_date

\* An upsert whose exception is not caught: the run dies without a line.
UpsertUncaught ==
    /\ pc = "upsert"
    /\ \/ /\ table' = TableUpsert(table, upsert_payload(Tickers[idx], snap))
          /\ output' = Append(output, OkLine(Tickers[idx], snap))
          /\ pc' = "loop"
          /\ idx' = idx + 1
       \/ /\ pc' = "crashed"
          /\ UNCHANGED <<table, output, idx>>
    /\ UNCHANGED <<run, attempts, last_err, html, snap, missing, utcnow,
                   attemptLog, calls, lastUpsert>>

\* upsert_daily and the [OK] line, or the exception of execute() and the
\* [ERR] line (main.py:238-244); a failed upsert leaves the table as it was.
Upsert ==
    /\ pc = "upsert"
    /\ \/ /\ table' = TableUpsert(table, upsert_payload(Tickers[idx], snap))
          /\ output' = Append(output, OkLine(Tickers[idx], snap))
          /\ lastUpsert' =
                {u \in lastUpsert : ~SameKey(u, Tickers[idx], snap)}
                    \cup {[ticker |-> Tickers[idx], snap |-> snap,
                           changed |-> \E u \in lastUpsert :
                                          /\ SameKey(u, Tickers[idx], snap)
                                          /\ u.snap # snap]}
       \/ \E e \in UpsertErrors :
            /\ output' = Append(output, ErrLine(Tickers[idx], e))
            /\ UNCHANGED <<table, lastUpsert>>
    /\ pc' = "loop"
    /\ idx' = idx + 1
    /\ UNCHANGED <<run, attempts, last_err, html, snap, missing, utcnow,
                   attemptLog, calls>>

Next == Start \/ NextTicker \/ Attempt \/ Parse \/ Upsert

Spec == Init /\ [][Next]_vars

(***************************************************************************)
(* The extraction functions on their own: fetch_snapshot applied to every  *)
(* document of ExtractInputs, as if fetch_html had just returned it.       *)
(***************************************************************************)
InitExtract ==
    /\ pc = "parse"
    /\ run = 1
    /\ idx = 1
    /\ attempts = 1
    /\ last_err = None
    /\ html \in ExtractInputs
    /\ snap = None
    /\ output = <<>>
    /\ missing = <<>>
    /\ utcnow = 1
    /\ table = {}
    /\ attemptLog = <<[ok |-> TRUE, body |-> html]>>
    /\ calls = <<Tickers[1]>>
    /\ lastUpsert = {}

SpecExtract == InitExtract /\ [][Parse]_vars

(***************************************************************************)
(* Properties                                                              *)
(***************************************************************************)
\* The state in which fetch_snapshot has returned for the document html.
Extracted == pc = "upsert" /\ snap # None

MinOf(S) == CHOOSE i \in S : \A j \in S : i <= j

\* The positions at which date pattern k (1: Fund Net Asset Value as of
\* Mon D YYYY, 2: As of Month D[,] YYYY, 3: As of MM/DD/YYYY) matches.
DateHits(t, k) ==
    {i \in 1..Len(t) :
        CASE k = 1 -> MatchesFundNav(t, i)
          [] k = 2 -> MatchesAsOfText(t, i)
          [] k = 3 -> MatchesAsOfNumeric(t, i)}

\* The calendar date pattern k yields: its match parsed, None when the
\* pattern does not match or its match is no calendar date.
DateOfPattern(t, k) ==
    IF DateHits(t, k) = {} THEN None
    ELSE LET tok == t[MinOf(DateHits(t, k)) + 1]
         IN  CASE k = 1 -> StrptimeAbbr(tok)
               [] k = 2 -> IF StrptimeAbbr(tok) # None THEN StrptimeAbbr(tok)
                           ELSE StrptimeFull(tok)
               [] k = 3 -> StrptimeNumeric(tok)

ResolvingPatterns(t) == {k \in 1..3 : DateOfPattern(t, k) # None}

\* C3: the date resolver returns the date of the first of its three
\* patterns, in the fixed order, that both matches and parses as a calendar
\* date; a match that does not parse counts as no match and the next
\* pattern is tried; no input makes it raise (the snapshot is built, with
\* the current date when no pattern resolves).
C3_FirstResolvingPatternWins ==
    Extracted =>
        LET t == get_text(html)
        IN  IF ResolvingPatterns(t) = {}
            THEN extract_asof_date(t) = None /\ snap.asof_date = UtcDays[utcnow]
            ELSE /\ extract_asof_date(t) = DateOfPattern(t, MinOf(ResolvingPatterns(t)))
                 /\ snap.asof_date = DateOfPattern(t, MinOf(ResolvingPatterns(t)))

\* C3 witness: the first and the second pattern match "Feb 30 2026", which
\* is no calendar date, and the third pattern supplies the date.
C3_Witness ==
    /\ Extracted
    /\ get_text(html) = <<L_FNAV, D_BADDAY, L_ASOF, N_OK>>
    /\ DateHits(get_text(html), 1) # {}
    /\ DateHits(get_text(html), 2) # {}
    /\ snap.asof_date = PyDate(2026, 1, 17)

\* The positions at which `label` is directly followed by a unit-suffixed
\* amount, and the amount of the leftmost of them (None when there is none
\* or its digits are no number).
LabelHits(t, label) == {i \in 1..Len(t) : MatchesLabeledAmount(t, label, i)}

LocatedAmount(t, label) ==
    IF LabelHits(t, label) = {} THEN None
    ELSE LET a == t[MinOf(LabelHits(t, label)) + 1]
         IN  parse_unit_amount(a.num, a.unit)

\* The positions at which a phrase ending with `label` occurs.
LabelOccurrences(t, label) ==
    {i \in 1..Len(t) : t[i].k = "phrase" /\ EndsWithLabel(t[i].s, label)}

\* Whether the first occurrence of `label` has no parseable amount after it.
FirstOccurrenceBare(t, label) ==
    /\ LabelOccurrences(t, label) # {}
    /\ LET i == MinOf(LabelOccurrences(t, label))
       IN  \/ ~MatchesLabeledAmount(t, label, i)
           \/ parse_unit_amount(t[i + 1].num, t[i + 1].unit) = None

\* C2 as stated: when the first candidate label that occurs in the text has
\* no parseable amount after its occurrence, the field is absent; neither
\* the next candidate label nor a later occurrence of the label is used.
C2_NoFallThrough ==
    Extracted =>
        LET t == get_text(html)
        IN  /\ FirstOccurrenceBare(t, "Assets Under Management") => snap.aum = None
            /\ FirstOccurrenceBare(t, "Shares Outstanding")
                    => snap.shares_outstanding = None

\* C2 amended: the locator does fall through.  A field's value is the
\* amount of the leftmost occurrence of its label that is directly followed
\* by a unit-suffixed amount, earlier bare occurrences being passed over;
\* for AUM, when "Assets Under Management" yields nothing (or zero), the
\* same search is made for "Net Assets"; the field is absent only when
\* every search yields nothing.
C2_FallsThrough ==
    Extracted =>
        LET t == get_text(html)
            first == LocatedAmount(t, "Assets Under Management")
        IN  /\ snap.shares_outstanding = LocatedAmount(t, "Shares Outstanding")
            /\ snap.aum = IF first # None /\ first.m # 0 THEN first
                          ELSE LocatedAmount(t, "Net Assets")

\* C2 witness: "Assets Under Management" occurs with no amount after it and
\* the AUM is taken from "Net Assets $93,602.55 M".
C2_Witness ==
    /\ Extracted
    /\ get_text(html) = <<L_AUM, L_NETA, A_AUM>>
    /\ FirstOccurrenceBare(get_text(html), "Assets Under Management")
    /\ snap.aum = [tag |-> "float", m |-> 9360255, e |-> 4]

\* The multiplier the unit suffix stands for: K 10^3, M 10^6, B 10^9,
\* none 1.
SuffixMultiplier(unit) ==
    CASE unit \in {"K", "k"} -> [tag |-> "float", m |-> 1, e |-> 3]
      [] unit \in {"M", "m"} -> [tag |-> "float", m |-> 1, e |-> 6]
      [] unit \in {"B", "b"} -> [tag |-> "float", m |-> 1, e |-> 9]
      [] unit = "" -> [tag |-> "float", m |-> 1, e |-> 0]

\* The positions at which `label` is directly followed by an amount, with
\* or without a unit suffix (for NAV: a "$" amount), whose digits are a
\* number.
ValueFollows(t, label) ==
    {i \in 1..(Len(t) - 1) :
        /\ t[i].k = "phrase" /\ EndsWithLabel(t[i].s, label)
        /\ t[i + 1].k = "amt"
        /\ PyFloat(SelectSeq(t[i + 1].num, IsNotComma)) # None}

ScaledValue(a) ==
    FloatMul(PyFloat(SelectSeq(a.num, IsNotComma)), SuffixMultiplier(a.unit))

\* C5 as stated: the amount that follows a field's label is returned scaled
\* by its unit suffix (K 10^3, M 10^6, B 10^9), and unscaled, not absent,
\* when it has no suffix; for the shares, AUM and NAV labels alike.
C5_UnitScaling ==
    Extracted =>
        LET t == get_text(html)
        IN  /\ ValueFollows(t, "Shares Outstanding") # {}
                => snap.shares_outstanding
                     = ScaledValue(t[MinOf(ValueFollows(t, "Shares Outstanding")) + 1])
            /\ (/\ ValueFollows(t, "Assets Under Management") # {}
                /\ ScaledValue(t[MinOf(ValueFollows(t, "Assets Under Management")) + 1]).m # 0)
                => snap.aum
                     = ScaledValue(t[MinOf(ValueFollows(t, "Assets Under Management")) + 1])
            /\ (/\ ValueFollows(t, "NAV") # {}
                /\ t[MinOf(ValueFollows(t, "NAV")) + 1].dollar
                /\ MinOf(ValueFollows(t, "NAV")) = MinOf(LabelOccurrences(t, "NAV")))
                => snap.nav = ScaledValue(t[MinOf(ValueFollows(t, "NAV")) + 1])

IsOptionalFloat(v) == v = None \/ v.tag = "float"

\* C6: snapshot assembly does not fail for missing data: for every page
\* text a snapshot is built; nav, aum and shares_outstanding are each a
\* found value or None, each what its own extraction gives whatever the
\* other fields are; asof_date is always a calendar date; a page that names
\* no AUM or shares label has aum = None and shares_outstanding = None.
C6_MissingFieldsNeverAbort ==
    (pc = "upsert") =>
        LET t == get_text(html)
        IN  /\ snap # None
            /\ snap.asof_date.tag = "date"
            /\ MakeDate(snap.asof_date.y, snap.asof_date.m, snap.asof_date.d)
                    = snap.asof_date
            /\ IsOptionalFloat(snap.nav)
            /\ IsOptionalFloat(snap.aum)
            /\ IsOptionalFloat(snap.shares_outstanding)
            /\ snap.nav = extract_nav(t)
            /\ snap.aum = extract_aum(t)
            /\ snap.shares_outstanding = extract_shares(t)
            /\ (LabelOccurrences(t, "Assets Under Management") = {}
                /\ LabelOccurrences(t, "Net Assets") = {}) => snap.aum = None
            /\ LabelOccurrences(t, "Shares Outstanding") = {}
                    => snap.shares_outstanding = None
            /\ LabelHits(t, "Shares Outstanding") # {}
                    => snap.shares_outstanding = LocatedAmount(t, "Shares Outstanding")

\* C6 witness: a page with only "NAV $145.42".
C6_Witness ==
    /\ pc = "upsert"
    /\ get_text(html) = <<L_NAV, A_NAV>>
    /\ snap.nav = [tag |-> "float", m |-> 14542, e |-> 0 - 2]
    /\ snap.aum = None
    /\ snap.shares_outstanding = None
    /\ snap.asof_date = UtcDays[utcnow]

\* The script block is present and its content parses to a JSON container.
PayloadParsed ==
    /\ html.script.tag = "script"
    /\ html.script.string.k = "json"
    /\ html.script.string.value # None

\* A shares / AUM value that stands in the payload and not in the page text.
SharesOnlyInPayload ==
    /\ PayloadParsed
    /\ LocatedAmount(html.script.string.value.strings, "Shares Outstanding") # None
    /\ LabelHits(html.body, "Shares Outstanding") = {}
AumOnlyInPayload ==
    /\ PayloadParsed
    /\ LocatedAmount(html.script.string.value.strings, "Assets Under Management") # None
    /\ LabelHits(html.body, "Assets Under Management") = {}
    /\ LabelHits(html.body, "Net Assets") = {}

C8_FlagIffParses ==
    Extracted =>
        (snap.raw_payload.next_data_present
            <=> (html.script.tag = "script" /\ html.script.string.k = "json"))

\* Two documents with the same fields and script block, one with a date in
\* its text and one without.
ProbeDocuments ==
    {[body |-> <<>>, script |-> NoScript],
     [body |-> <<L_ASOF, D_ABBR>>, script |-> NoScript]}

\* C4 as stated: when no date pattern resolves, asof_date is the current UTC
\* date, and the diagnostics tell a fallback date from a page-sourced one:
\* no document whose date comes from the other source has the same
\* diagnostics.
C4_FallbackFlagged ==
    Extracted =>
        LET t == get_text(html)
        IN  /\ extract_asof_date(t) = None => snap.asof_date = UtcDays[utcnow]
            /\ \A p \in ProbeDocuments :
                  build_snapshot(p, snap.source_url, UtcDays[utcnow]).raw_payload
                        = snap.raw_payload
                    => ((extract_asof_date(get_text(p)) = None)
                            <=> (extract_asof_date(t) = None))

Last(q) == q[Len(q)]

\* C10: fetch_html makes at most retries + 1 attempts; it returns the body
\* of the first attempt that succeeds and makes no attempt after a success;
\* when all retries + 1 attempts fail it raises the error of the last one;
\* a snapshot is built and an upsert issued for a ticker only after a
\* successful fetch.
C10_FetchBounded ==
    /\ attempts <= RETRIES + 1
    /\ Len(attemptLog) = attempts
    /\ \A i \in 1..(Len(attemptLog) - 1) : ~attemptLog[i].ok
    /\ pc = "fetch" =>
          /\ attempts < RETRIES + 1
          /\ \A i \in 1..Len(attemptLog) : ~attemptLog[i].ok
    /\ pc \in {"parse", "upsert"} =>
          /\ attemptLog # <<>>
          /\ Last(attemptLog).ok
          /\ html = Last(attemptLog).body
    /\ pc = "upsert" => snap.source_url = SOURCE_URLS[Tickers[idx]]
    /\ (pc = "loop" /\ attemptLog # <<>> /\ ~Last(attemptLog).ok) =>
          /\ Len(attemptLog) = RETRIES + 1
          /\ Last(output) = ErrLine(Tickers[idx - 1], Last(attemptLog).err)
    /\ (pc = "loop" /\ output # <<>> /\ Last(output).kind = "OK") =>
          /\ attemptLog # <<>>
          /\ Last(attemptLog).ok

\* C10 witness: three attempts failed, the first and the last with different
\* errors, and the line printed carries the last one.
C10_Witness ==
    /\ pc = "loop"
    /\ Len(attemptLog) = RETRIES + 1
    /\ \A i \in 1..Len(attemptLog) : ~attemptLog[i].ok
    /\ attemptLog[1].err # Last(attemptLog).err
    /\ Last(output) = ErrLine(Tickers[idx - 1], Last(attemptLog).err)

\* The calendar date an ISO "YYYY-MM-DD" string of the table stands for.
IsoToDate(c) ==
    PyDate(DigitVal(c[1]) * 1000 + DigitVal(c[2]) * 100 + DigitVal(c[3]) * 10
                + DigitVal(c[4]),
           DigitVal(c[6]) * 10 + DigitVal(c[7]),
           DigitVal(c[9]) * 10 + DigitVal(c[10]))

\* C9: after any sequence of runs the table holds at most one row per
\* (ticker, asof_date); the row carries the nav, aum, shares_outstanding,
\* source_url and diagnostics of the most recent successful upsert for that
\* key; a repeated run overwrites the earlier row and adds none; rows of
\* other keys stay as they were.
C9_OneRowPerKey ==
    /\ \A r1, r2 \in table :
          (r1.ticker = r2.ticker /\ r1.asof_date = r2.asof_date) => r1 = r2
    /\ Cardinality(table) = Cardinality(lastUpsert)
    /\ \A u \in lastUpsert :
          \E r \in table :
              /\ r.ticker = u.ticker
              /\ Len(r.asof_date) = 10
              /\ IsoToDate(r.asof_date) = u.snap.asof_date
              /\ r.nav = u.snap.nav
              /\ r.aum = u.snap.aum
              /\ r.shares_outstanding = u.snap.shares_outstanding
              /\ r.source_url = u.snap.source_url
              /\ r.raw_payload = u.snap.raw_payload

\* C9 witness: a later upsert has replaced a different snapshot of the same
\* ticker and date, while the table also holds a row of another key.
C9_Witness ==
    /\ run = 2
    /\ Cardinality(table) >= 2
    /\ \E u \in lastUpsert : u.changed
    /\ C9_OneRowPerKey

\* The tickers of the list that have a URL, and those among the first n.
Configured(n) == SelectSeq(SubSeq(Tickers, 1, n), HasUrl)

IsOutcome(line) == line.kind \in {"OK", "ERR"}

\* Every ticker the loop has reached was attempted once, in list order, and
\* every ticker it has left has exactly one outcome line, in list order.
OneOutcomePerTicker ==
    pc \in {"loop", "fetch", "parse", "upsert", "done"} =>
        LET reached == IF pc \in {"fetch", "parse", "upsert"} THEN idx ELSE idx - 1
            outcomes == SelectSeq(output, IsOutcome)
        IN  /\ calls = Configured(reached)
            /\ Len(outcomes) = Len(Configured(idx - 1))
            /\ \A i \in 1..Len(outcomes) : outcomes[i].ticker = Configured(idx - 1)[i]
            /\ pc = "done" => idx - 1 = Len(Tickers)

Running == pc \in {"loop", "fetch", "parse", "upsert"}

\* An upper bound on the steps a run has left: per ticker the loop head,
\* at most RETRIES + 1 attempts, the parse and the upsert; one more step
\* ends the run.
StepsLeft ==
    CASE pc = "loop" -> (Len(Tickers) + 1 - idx) * (RETRIES + 4) + 1
      [] pc = "fetch" -> (Len(Tickers) + 1 - idx) * (RETRIES + 4) - attempts
      [] pc = "parse" -> (Len(Tickers) - idx) * (RETRIES + 4) + 3
      [] pc = "upsert" -> (Len(Tickers) - idx) * (RETRIES + 4) + 2
      [] OTHER -> 0

\* Some step of the run is possible.  (For the parse step its result is
\* evaluated instead of ENABLED Parse: fetch_snapshot's remainder has no
\* guard besides the position, and its snapshot must be defined.)
CanStep ==
    \/ ENABLED NextTicker
    \/ ENABLED Attempt
    \/ ENABLED Upsert
    \/ /\ pc = "parse"
       /\ utcnow \in 1..Len(UtcDays)
       /\ build_snapshot(html, SOURCE_URLS[Tickers[idx]], UtcDays[utcnow]) # None

\* C1: whatever the per-ticker outcomes (fetch raises, upsert raises, both
\* succeed), every ticker with a URL is attempted exactly once, in list
\* order, and yields exactly one [OK] or [ERR] line; a failure for one
\* ticker does not keep the remaining ones from being processed; the run
\* reaches its end: inside the loop a step is always possible, no step
\* leaves the loop other than to the end of the run, and every step
\* lowers the bound on the steps left.
C1_EveryTickerOnce ==
    /\ []OneOutcomePerTicker
    /\ [](Running => (CanStep /\ StepsLeft > 0))
    /\ [][Running => (/\ pc' \in {"loop", "fetch", "parse", "upsert", "done"}
                      /\ StepsLeft' < StepsLeft)]_vars

\* C1 witness: a finished run whose first ticker failed and whose later
\* tickers were still processed, the second one successfully.
C1_Witness ==
    /\ pc = "done"
    /\ Len(output) = Len(Tickers)
    /\ output[1].kind = "ERR"
    /\ output[2].kind = "OK"
    /\ calls = Tickers

====
